---- MODULE Spec2Model ----
(***************************************************************************)
(* Password hashing of pydal/validators.py: simple_hash, get_digest,       *)
(* LazyCrypt (__str__, __eq__, __ne__) and CRYPT (validate).               *)
(*                                                                         *)
(* Python values are tagged records: None, a str, a bool.  A str is a      *)
(* sequence of items; an item is a character, a byte, or a hex digest.     *)
(* A hex digest is a symbolic term over the digest function, its key and   *)
(* its message: two digests are equal exactly when they were computed      *)
(* by the same function from the same bytes (the hash is collision free),  *)
(* and it counts for as many characters as the hex digest is long.         *)
(***************************************************************************)
EXTENDS Integers, Sequences, FiniteSets, TLC

VARIABLES obj, call

vars == <<obj, call>>

(***************************************************************************)
(* Python values                                                           *)
(***************************************************************************)
None == [t |-> "None"]

PyStr(s) == [t |-> "str", s |-> s]

PyBool(b) == [t |-> "bool", b |-> b]

IsStr(v) == v.t = "str"

\* bool(v) for None, str and bool
Truthy(v) ==
  CASE v.t = "None" -> FALSE
    [] v.t = "str" -> v.s # <<>>
    [] v.t = "bool" -> v.b
    [] OTHER -> TRUE

\* the outcome of a call: a returned value or a raised exception
Ok(v) == [ok |-> TRUE, val |-> v]

Raise(e) == [ok |-> FALSE, exc |-> e]

(***************************************************************************)
(* Strings                                                                 *)
(***************************************************************************)
Ch(c) == [k |-> "c", v |-> c]

By(c) == [k |-> "b", v |-> c]

\* the str whose characters are the one-character strings of tuple t
S(t) == [i \in 1..Len(t) |-> Ch(t[i])]

\* the number of characters an item stands for
Width(x) == IF x.k = "h" THEN x.n ELSE 1

RECURSIVE PyLen(_)
\* len(s)
PyLen(s) == IF s = <<>> THEN 0 ELSE Width(Head(s)) + PyLen(Tail(s))

\* s.count(c) for a one-character c
Count(s, c) == Cardinality({i \in 1..Len(s) : s[i] = Ch(c)})

\* c in s
Contains(s, c) == \E i \in 1..Len(s) : s[i] = Ch(c)

\* s.find(c) + 1 for a c that occurs in s
Find(s, c) == CHOOSE i \in 1..Len(s) : s[i] = Ch(c) /\ \A j \in 1..(i - 1) : s[j] # Ch(c)

\* s[:i-1] and s[i+1:] for position i of s
Cut(s, i) == <<SubSeq(s, 1, i - 1), SubSeq(s, i + 1, Len(s))>>

\* s.split(c, 1) for a c that occurs in s
Split1(s, c) == Cut(s, Find(s, c))

RECURSIVE Split(_, _)
\* s.split(c)
Split(s, c) ==
  IF ~Contains(s, c) THEN <<s>>
  ELSE <<Split1(s, c)[1]>> \o Split(Split1(s, c)[2], c)

\* s.startswith(p)
StartsWith(s, p) == Len(s) >= Len(p) /\ SubSeq(s, 1, Len(p)) = p

RECURSIVE Rep(_, _)
\* c * n
Rep(c, n) == IF n = 0 THEN <<>> ELSE <<Ch(c)>> \o Rep(c, n - 1)

UpperCase == <<"A", "B", "C", "D", "E", "F", "G", "H", "I", "J", "K", "L", "M",
               "N", "O", "P", "Q", "R", "S", "T", "U", "V", "W", "X", "Y", "Z">>

LowerCase == <<"a", "b", "c", "d", "e", "f", "g", "h", "i", "j", "k", "l", "m",
               "n", "o", "p", "q", "r", "s", "t", "u", "v", "w", "x", "y", "z">>

\* s.lower()
Lower(s) ==
  [i \in 1..Len(s) |->
     IF s[i].k = "c" /\ \E j \in 1..26 : UpperCase[j] = s[i].v
     THEN Ch(LowerCase[CHOOSE j \in 1..26 : UpperCase[j] = s[i].v])
     ELSE s[i]]

Digits == <<"0", "1", "2", "3", "4", "5", "6", "7", "8", "9">>

IsDigit(x) == x.k = "c" /\ \E d \in 1..10 : Digits[d] = x.v

DigitVal(x) == (CHOOSE d \in 1..10 : Digits[d] = x.v) - 1

RECURSIVE Decimal(_)
\* the number a non-empty sequence of digits denotes
Decimal(s) == IF s = <<>> THEN 0 ELSE 10 * Decimal(SubSeq(s, 1, Len(s) - 1)) + DigitVal(s[Len(s)])

RECURSIVE Strip(_)
\* s.strip() for blanks
Strip(s) ==
  IF s = <<>> THEN s
  ELSE IF Head(s) = Ch(" ") THEN Strip(Tail(s))
  ELSE IF s[Len(s)] = Ch(" ") THEN Strip(SubSeq(s, 1, Len(s) - 1))
  ELSE s

\* int(s): blanks around, an optional sign, then decimal digits
int(s) ==
  LET t == Strip(s)
      signed == t # <<>> /\ Head(t) \in {Ch("-"), Ch("+")}
      d == IF signed THEN Tail(t) ELSE t
  IN IF d = <<>> \/ \E i \in 1..Len(d) : ~IsDigit(d[i]) THEN Raise("ValueError")
     ELSE IF signed /\ Head(t) = Ch("-") THEN Ok(0 - Decimal(d))
     ELSE Ok(Decimal(d))

\* to_bytes(s) of a str: its UTF-8 encoding (the characters here are ASCII)
to_bytes(s) == [i \in 1..Len(s) |-> IF s[i].k = "c" THEN By(s[i].v) ELSE s[i]]

(***************************************************************************)
(* Digests                                                                 *)
(***************************************************************************)
md5 == S(<<"m", "d", "5">>)

sha1 == S(<<"s", "h", "a", "1">>)

sha224 == S(<<"s", "h", "a", "2", "2", "4">>)

sha256 == S(<<"s", "h", "a", "2", "5", "6">>)

sha384 == S(<<"s", "h", "a", "3", "8", "4">>)

sha512 == S(<<"s", "h", "a", "5", "1", "2">>)

DigestNames == {md5, sha1, sha224, sha256, sha384, sha512}

\* the length of hashlib's hexdigest() for a digest name
HexLen(name) ==
  CASE name = md5 -> 128 \div 4
    [] name = sha1 -> 160 \div 4
    [] name = sha224 -> 224 \div 4
    [] name = sha256 -> 256 \div 4
    [] name = sha384 -> 384 \div 4
    [] name = sha512 -> 512 \div 4

\* a hex digest: fn is the function, alg the digest, key and msg its inputs,
\* iter the iteration count (pbkdf2), n the number of hex characters
Hex(fn, alg, key, msg, iter, n) ==
  [k |-> "h", fn |-> fn, alg |-> alg, key |-> key, msg |-> msg, iter |-> iter, n |-> n]

\* get_digest without value.lower()
GetDigestCaseSensitive(value) ==
  IF value \notin DigestNames THEN Raise("ValueError") ELSE Ok(value)

\* get_digest(value) for a str: the digest's name, or ValueError
get_digest(value) ==
  IF Lower(value) \notin DigestNames THEN Raise("ValueError") ELSE Ok(Lower(value))

\* pbkdf2_hex: hashlib.pbkdf2_hmac refuses iterations < 1 and keylen < 1
pbkdf2_hex(data, salt, iterations, keylen, hashfunc) ==
  IF iterations < 1 \/ keylen < 1 THEN Raise("ValueError")
  ELSE Ok(<<Hex("pbkdf2", hashfunc, to_bytes(salt), to_bytes(data), iterations, 2 * keylen)>>)

pbkdf2 == S(<<"p", "b", "k", "d", "f", "2">>)

\* simple_hash with the key tested before the pbkdf2 prefix
SimpleHashKeyFirst(text, key, salt, digest_alg) ==
  LET Pbkdf2(iterations, keylen, alg) ==
        IF ~iterations.ok THEN iterations
        ELSE IF ~keylen.ok THEN keylen
        ELSE IF ~alg.ok THEN alg
        ELSE pbkdf2_hex(to_bytes(text), to_bytes(salt), iterations.val, keylen.val, alg.val)
      Unpack(parts) ==
        IF Len(parts) # 3 THEN Raise("ValueError")
        ELSE Pbkdf2(int(parts[1]), int(parts[2]), get_digest(parts[3]))
      Hmac(alg) ==
        IF ~alg.ok THEN alg
        ELSE Ok(<<Hex("hmac", alg.val, to_bytes(key) \o to_bytes(salt), to_bytes(text), 0,
                      HexLen(alg.val))>>)
      Plain(alg) ==
        IF ~alg.ok THEN alg
        ELSE Ok(<<Hex("digest", alg.val, <<>>, to_bytes(text) \o to_bytes(salt), 0,
                      HexLen(alg.val))>>)
  IN IF ~Truthy(digest_alg) THEN Raise("RuntimeError")
     ELSE IF to_bytes(key) # <<>> THEN Hmac(get_digest(digest_alg.s))
     ELSE IF StartsWith(digest_alg.s, pbkdf2)
     THEN Unpack(Split(SubSeq(digest_alg.s, 8, Len(digest_alg.s) - 1), ","))
     ELSE Plain(get_digest(digest_alg.s))

\* simple_hash(text, key, salt, digest_alg): text, key and salt are strs,
\* digest_alg is None or a str; the hex digest as a str, or the exception
simple_hash(text, key, salt, digest_alg) ==
  LET \* iterations, keylen, alg = digest_alg[7:-1].split(",")
      Pbkdf2(iterations, keylen, alg) ==
        IF ~iterations.ok THEN iterations
        ELSE IF ~keylen.ok THEN keylen
        ELSE IF ~alg.ok THEN alg
        ELSE pbkdf2_hex(to_bytes(text), to_bytes(salt), iterations.val, keylen.val, alg.val)
      Unpack(parts) ==
        IF Len(parts) # 3 THEN Raise("ValueError")
        ELSE Pbkdf2(int(parts[1]), int(parts[2]), get_digest(parts[3]))
      Hmac(alg) ==
        IF ~alg.ok THEN alg
        ELSE Ok(<<Hex("hmac", alg.val, to_bytes(key) \o to_bytes(salt), to_bytes(text), 0,
                      HexLen(alg.val))>>)
      Plain(alg) ==
        IF ~alg.ok THEN alg
        ELSE Ok(<<Hex("digest", alg.val, <<>>, to_bytes(text) \o to_bytes(salt), 0,
                      HexLen(alg.val))>>)
  IN IF ~Truthy(digest_alg) THEN Raise("RuntimeError")
     ELSE IF StartsWith(digest_alg.s, pbkdf2)
     THEN Unpack(Split(SubSeq(digest_alg.s, 8, Len(digest_alg.s) - 1), ","))
     ELSE IF to_bytes(key) # <<>> THEN Hmac(get_digest(digest_alg.s))
     ELSE Plain(get_digest(digest_alg.s))

\* the table with the md5 and sha1 lengths exchanged
DigestAlgBySizeSwapped(n) ==
  CASE n = 128 \div 4 -> PyStr(sha1)
    [] n = 160 \div 4 -> PyStr(md5)
    [] n = 224 \div 4 -> PyStr(sha224)
    [] n = 256 \div 4 -> PyStr(sha256)
    [] n = 384 \div 4 -> PyStr(sha384)
    [] n = 512 \div 4 -> PyStr(sha512)
    [] OTHER -> None

\* DIGEST_ALG_BY_SIZE.get(n, "md5"): a default digest for an unknown length
DigestAlgBySizeDefault(n) ==
  CASE n = 128 \div 4 -> PyStr(md5)
    [] n = 160 \div 4 -> PyStr(sha1)
    [] n = 224 \div 4 -> PyStr(sha224)
    [] n = 256 \div 4 -> PyStr(sha256)
    [] n = 384 \div 4 -> PyStr(sha384)
    [] n = 512 \div 4 -> PyStr(sha512)
    [] OTHER -> PyStr(md5)

\* DIGEST_ALG_BY_SIZE.get(n, None)
DIGEST_ALG_BY_SIZE(n) ==
  CASE n = 128 \div 4 -> PyStr(md5)
    [] n = 160 \div 4 -> PyStr(sha1)
    [] n = 224 \div 4 -> PyStr(sha224)
    [] n = 256 \div 4 -> PyStr(sha256)
    [] n = 384 \div 4 -> PyStr(sha384)
    [] n = 512 \div 4 -> PyStr(sha512)
    [] OTHER -> None

(***************************************************************************)
(* LazyCrypt                                                               *)
(*                                                                         *)
(* An instance holds crypt (the CRYPT that made it; its attributes are     *)
(* never assigned after construction, so the instance carries them by      *)
(* value), password and the cache slot crypted.  hashes and salts are      *)
(* history: how often __str__ has invoked simple_hash and how many salts   *)
(* it has generated on this instance.                                     *)
(***************************************************************************)
\* LazyCrypt.__init__
LazyCrypt(crypt, password) ==
  [t |-> "LazyCrypt", crypt |-> crypt, password |-> password, crypted |-> None,
   hashes |-> 0, salts |-> 0]

\* the instance held in obj, as a value passed around
Self == [t |-> "LazyCrypt", same |-> TRUE]

\* another instance, as a value passed around
Other(crypt, password) ==
  [t |-> "LazyCrypt", same |-> FALSE, crypt |-> crypt, password |-> password]

\* __str__ without the cache test
CachedNever(o) == FALSE

\* __str__: the cache test
Cached(o) == Truthy(o.crypted)

\* __str__: digest_alg and key from crypt.key and crypt.digest_alg
StrAlgKey(crypt) ==
  LET Pair(f) == [digest_alg |-> PyStr(f[1]), key |-> f[2]]
  IN IF Truthy(crypt.key) THEN
       IF Contains(crypt.key.s, ":") THEN Pair(Split1(crypt.key.s, ":"))
       ELSE [digest_alg |-> crypt.digest_alg, key |-> crypt.key.s]
     ELSE [digest_alg |-> crypt.digest_alg, key |-> <<>>]

\* __str__: the salt; uuid is what str(uuid.uuid4()).replace("-", "")[-16:] gives
StrSalt(crypt, uuid) ==
  IF Truthy(crypt.salt) THEN
    IF crypt.salt = PyBool(TRUE) THEN uuid ELSE crypt.salt.s
  ELSE <<>>

\* "%s$%s$%s" % (digest_alg, salt, hash)
Format(digest_alg, salt, hash) == digest_alg \o <<Ch("$")>> \o salt \o <<Ch("$")>> \o hash

\* __str__ with the cache assigned before simple_hash is called
LazyCryptStrEarlyStore(o, uuid) ==
  LET Salted(crypt) == IF Truthy(crypt.salt) /\ crypt.salt = PyBool(TRUE) THEN 1 ELSE 0
      Seen(x) == [x EXCEPT !.hashes = @ + 1, !.salts = @ + Salted(x.crypt)]
      Store(digest_alg, salt, hashed) ==
        [ret |-> IF hashed.ok THEN Ok(PyStr(Format(digest_alg.s, salt, hashed.val)))
                 ELSE hashed,
         obj |-> IF hashed.ok
                 THEN [Seen(o) EXCEPT !.crypted = PyStr(Format(digest_alg.s, salt, hashed.val))]
                 ELSE [Seen(o) EXCEPT !.crypted = PyStr(<<Ch("$")>> \o salt \o <<Ch("$")>>)],
         hashed |-> 1, salted |-> Salted(o.crypt)]
      Hash(a, salt) ==
        Store(a.digest_alg, salt, simple_hash(o.password.s, a.key, salt, a.digest_alg))
  IN IF Cached(o) THEN [ret |-> Ok(o.crypted), obj |-> o, hashed |-> 0, salted |-> 0]
     ELSE Hash(StrAlgKey(o.crypt), StrSalt(o.crypt, uuid))

\* LazyCrypt.__str__ on instance o: what it returns or raises (ret), the
\* instance afterwards (obj), and the simple_hash calls and salts of this call
LazyCrypt_str(o, uuid) ==
  LET Salted(crypt) == IF Truthy(crypt.salt) /\ crypt.salt = PyBool(TRUE) THEN 1 ELSE 0
      Seen(x) == [x EXCEPT !.hashes = @ + 1, !.salts = @ + Salted(x.crypt)]
      \* self.crypted = "%s$%s$%s" % (digest_alg, salt, hashed)
      Store(digest_alg, salt, hashed) ==
        [ret |-> IF hashed.ok THEN Ok(PyStr(Format(digest_alg.s, salt, hashed.val)))
                 ELSE hashed,
         obj |-> IF hashed.ok
                 THEN [Seen(o) EXCEPT !.crypted = PyStr(Format(digest_alg.s, salt, hashed.val))]
                 ELSE Seen(o),
         hashed |-> 1, salted |-> Salted(o.crypt)]
      Hash(a, salt) ==
        Store(a.digest_alg, salt, simple_hash(o.password.s, a.key, salt, a.digest_alg))
  IN IF Cached(o) THEN [ret |-> Ok(o.crypted), obj |-> o, hashed |-> 0, salted |-> 0]
     ELSE Hash(StrAlgKey(o.crypt), StrSalt(o.crypt, uuid))

\* __eq__: the key from crypt.key
EqKey(crypt) ==
  IF Truthy(crypt.key) THEN
    IF Contains(crypt.key.s, ":") THEN Split(crypt.key.s, ":")[2] ELSE crypt.key.s
  ELSE <<>>

\* the test with the number of fields in place of the number of '$'
IsSaltedThree(stored) == Count(stored, "$") = 3

\* __eq__: the test for the '$'-delimited shape
IsSalted(stored) == Count(stored, "$") = 2

\* LazyCrypt.__eq__ on instance o: stored_password is None, a str, Self or
\* another instance; what it returns or raises and its simple_hash calls
LazyCrypt_eq(o, stored_password) ==
  LET \* temp_pass == stored_password, or what simple_hash raised
      Compare(temp_pass) ==
        [ret |-> IF temp_pass.ok THEN Ok(PyBool(temp_pass.val = stored_password.s))
                 ELSE temp_pass,
         hashed |-> 1]
      Wrap(digest_alg, salt, h) ==
        IF h.ok THEN Ok(Format(digest_alg, salt, h.val)) ELSE h
      Salted(f, key) ==
        Compare(Wrap(f[1], f[2], simple_hash(o.password.s, key, f[2], PyStr(f[1]))))
      Guessed(digest_alg, key) ==
        IF ~Truthy(digest_alg) THEN [ret |-> Ok(PyBool(FALSE)), hashed |-> 0]
        ELSE Compare(simple_hash(o.password.s, key, <<>>, digest_alg))
  IN IF stored_password.t = "LazyCrypt" THEN
       [ret |-> Ok(PyBool(\/ stored_password.same
                          \/ /\ o.crypt.key = stored_password.crypt.key
                             /\ o.password = stored_password.password)),
        hashed |-> 0]
     ELSE IF stored_password = None THEN [ret |-> Ok(PyBool(FALSE)), hashed |-> 0]
     ELSE IF IsSalted(stored_password.s)
     THEN Salted(Split(stored_password.s, "$"), EqKey(o.crypt))
     ELSE Guessed(DIGEST_ALG_BY_SIZE(PyLen(stored_password.s)), EqKey(o.crypt))

\* LazyCrypt.__ne__
LazyCrypt_ne(o, other) ==
  LET Not(e) == IF ~e.ret.ok THEN e ELSE [ret |-> Ok(PyBool(~e.ret.val.b)), hashed |-> e.hashed]
  IN Not(LazyCrypt_eq(o, other))

(***************************************************************************)
(* CRYPT                                                                   *)
(***************************************************************************)
\* the placeholder one asterisk short
StarsFive == S(<<"*", "*", "*", "*", "*">>)

STARS == S(<<"*", "*", "*", "*", "*", "*">>)

\* CRYPT.__init__ (error_message, a text shown to the user, is left out)
CRYPT(key, digest_alg, min_length, salt, max_length) ==
  [key |-> key, digest_alg |-> digest_alg, min_length |-> min_length, salt |-> salt,
   max_length |-> max_length]

Min(a, b) == IF a < b THEN a ELSE b

\* validate: value == self.STARS
IsStars(o, value) ==
  IF value.t = "LazyCrypt" THEN LazyCrypt_eq(o, PyStr(STARS)).ret.val.b
  ELSE value = PyStr(STARS)

\* CRYPT.validate(value) on encoder self: value is None, a str or Self (the
\* instance o); what it returns or raises (ret), the instance afterwards (obj),
\* whether a LazyCrypt was constructed, and the simple_hash calls
CRYPT_validate(self, value, o, uuid) ==
  LET \* value is a LazyCrypt: m is the outcome of str(value)
      OfLazy(m) ==
        [ret |-> IF ~m.ret.ok THEN m.ret
                 ELSE IF \/ Min(PyLen(m.ret.val.s), self.max_length) = 0
                         \/ Min(PyLen(m.ret.val.s), self.max_length) < self.min_length
                 THEN Raise("ValidationError")
                 ELSE Ok(Self),
         obj |-> m.obj, created |-> FALSE, hashed |-> m.hashed]
  IN IF IsStars(o, value) THEN
       [ret |-> Ok(None), obj |-> o, created |-> FALSE, hashed |-> 0]
     \* v = value and str(value)[: self.max_length]
     ELSE IF value.t = "LazyCrypt" THEN OfLazy(LazyCrypt_str(o, uuid))
     ELSE IF \/ ~Truthy(value)
             \/ Min(PyLen(value.s), self.max_length) = 0
             \/ Min(PyLen(value.s), self.max_length) < self.min_length
     THEN [ret |-> Raise("ValidationError"), obj |-> o, created |-> FALSE, hashed |-> 0]
     ELSE [ret |-> Ok(Self), obj |-> LazyCrypt(self, value), created |-> TRUE, hashed |-> 0]

\* formatter that hands the value back
CryptFormatterEcho(self, value) == value

\* CRYPT.formatter(value)
CRYPT_formatter(self, value) == PyStr(STARS)

(***************************************************************************)
(* Inputs                                                                  *)
(***************************************************************************)
\* how many failing __str__ calls on one instance are followed
MaxAttempts == 2

\* the salts uuid4 may give: 16 hex characters
AutoSalts == {Rep("0", 15) \o S(<<"a">>), Rep("0", 15) \o S(<<"b">>)}

pbkdf2_sha512 ==
  S(<<"p", "b", "k", "d", "f", "2", "(", "1", "0", "0", "0", ",", "2", "0", ",",
      "s", "h", "a", "5", "1", "2", ")">>)

Keys ==
  {None, PyStr(S(<<"k">>)), PyStr(S(<<"s", "h", "a", "1", ":", "k">>)),
   PyStr(S(<<"s", "h", "a", "1", ":", "a", ":", "b">>))}

Algs == {PyStr(md5), PyStr(sha1), PyStr(pbkdf2_sha512), PyStr(S(<<"m", "d", "4">>))}

Salts == {PyBool(FALSE), PyBool(TRUE), PyStr(S(<<"a", "$", "b">>))}

MinLengths == {0, 7}

MaxLengths == {1024}

Configs ==
  {CRYPT(k, d, mn, s, mx) : k \in Keys, d \in Algs, mn \in MinLengths, s \in Salts,
                            mx \in MaxLengths}

Passwords == {S(<<"t", "e", "s", "t">>), S(<<"a", "b", "c">>)}

\* what is passed to validate
Values == {None, PyStr(<<>>), PyStr(Rep("*", 6))} \cup {PyStr(p) : p \in Passwords}

\* the instances validate returns for configurations C and values V
Instances(C, V) ==
  {r.obj : r \in {x \in {CRYPT_validate(c, v, None, <<>>) : c \in C, v \in V} : x.created}}

\* the strings str() returns on instances I, each with the instance it is of
Materialized(I) ==
  {[arg |-> m.r.ret.val, by |-> m.i] :
     m \in {x \in {[i |-> i, r |-> LazyCrypt_str(i, u)] : i \in I, u \in AutoSalts} : x.r.ret.ok}}

\* the legacy strings of passwords P under digests D: the bare hex digest
\* simple_hash(p, '', '', d) and its wrapped form 'd$$<hex>'
Legacy(P, D) ==
  UNION {{[arg |-> PyStr(x.h.val),
           by |-> [t |-> "legacy", password |-> x.p, digest_alg |-> x.d, wrapped |-> FALSE]],
          [arg |-> PyStr(Format(x.d, <<>>, x.h.val)),
           by |-> [t |-> "legacy", password |-> x.p, digest_alg |-> x.d, wrapped |-> TRUE]]} :
           x \in {[p |-> p, d |-> d, h |-> simple_hash(p, <<>>, <<>>, PyStr(d))] :
                    p \in P, d \in D}}

\* strings no str() call returned
Foreign ==
  {<<>>,
   S(<<"a", "b", "c">>),
   S(<<"a", "$", "b">>),
   S(<<"a", "$", "b", "$", "c", "$", "d">>),
   S(<<"$", "s", "$", "a", "b", "c">>),
   S(<<"m", "d", "4", "$", "s", "$", "a", "b", "c">>),
   S(<<"p", "b", "k", "d", "f", "2", "(", "x", ")", "$", "s", "$", "a", "b", "c">>),
   S(<<"m", "d", "5", "$", "s", "$", "a", "b", "c">>),
   Rep("0", 32),
   Rep("0", 38) \o S(<<"$", "0">>)}

\* the instances compared with
Others ==
  {Other(CRYPT(k, d, 0, PyBool(FALSE), 1024), PyStr(p)) :
     k \in Keys, d \in Algs, p \in Passwords}

StoredArgs ==
  {[arg |-> None, by |-> None]}
  \cup {[arg |-> PyStr(x), by |-> None] : x \in Foreign}
  \cup {[arg |-> x, by |-> None] : x \in Others \cup {Self}}
  \cup Materialized(Instances(Configs, Values))
  \cup Legacy(Passwords, {md5, sha1})

(***************************************************************************)
(* The state: obj is the LazyCrypt instance at hand (None: there is none), *)
(* call is the call just made, with its arguments and its outcome, until   *)
(* the caller takes the outcome.                                           *)
(***************************************************************************)
Idle == [op |-> "idle"]

Init == obj = None /\ call = Idle

\* CRYPT(...).validate(value): of a plain value when no instance is at hand,
\* or of the instance at hand
Validate(C, V) ==
  /\ call = Idle
  /\ \E c \in C, v \in V \cup {Self}, u \in AutoSalts :
       /\ (v = Self) = (obj # None)
       /\ v = Self => obj.hashes < MaxAttempts
       /\ \E r \in {CRYPT_validate(c, v, obj, u)} :
            /\ obj' = r.obj
            /\ call' = [op |-> "validate", crypt |-> c, value |-> v, ret |-> r.ret,
                        created |-> r.created, hashed |-> r.hashed]

\* str(obj)
Str ==
  /\ call = Idle
  /\ obj # None
  /\ obj.hashes < MaxAttempts
  /\ \E u \in AutoSalts :
       \E r \in {LazyCrypt_str(obj, u)} :
         /\ obj' = r.obj
         /\ call' = [op |-> "str", ret |-> r.ret, hashed |-> r.hashed, salted |-> r.salted]

\* obj == stored, with the instance materialized by the comparison
EqMaterializes(A) ==
  /\ call = Idle
  /\ obj # None
  /\ \E a \in A, u \in AutoSalts :
       \E r \in {LazyCrypt_eq(obj, a.arg)} :
         /\ call' = [op |-> "eq", arg |-> a.arg, by |-> a.by, ret |-> r.ret,
                     hashed |-> r.hashed]
         /\ obj' = LazyCrypt_str(obj, u).obj

\* obj == stored
Eq(A) ==
  /\ call = Idle
  /\ obj # None
  /\ \E a \in A :
       \E r \in {LazyCrypt_eq(obj, a.arg)} :
         call' = [op |-> "eq", arg |-> a.arg, by |-> a.by, ret |-> r.ret, hashed |-> r.hashed]
  /\ UNCHANGED obj

\* obj != stored
Ne(A) ==
  /\ call = Idle
  /\ obj # None
  /\ \E a \in A :
       \E r \in {LazyCrypt_ne(obj, a.arg)} :
         call' = [op |-> "ne", arg |-> a.arg, by |-> a.by, ret |-> r.ret, hashed |-> r.hashed]
  /\ UNCHANGED obj

\* the caller takes the outcome of the call
Return ==
  /\ call # Idle
  /\ call' = Idle
  /\ UNCHANGED obj

\* the caller drops the instance
Discard ==
  /\ call = Idle
  /\ obj # None
  /\ obj' = None
  /\ UNCHANGED call

Next ==
  \/ Validate(Configs, Values)
  \/ Str
  \/ Eq(StoredArgs)
  \/ Ne(StoredArgs)
  \/ Return
  \/ Discard

Spec == Init /\ [][Next]_vars

(***************************************************************************)
(* The unsalted encoders: no key, no salt, every digest name (and, as the  *)
(* default digest_alg, a pbkdf2 descriptor and an unsupported name), with  *)
(* the legacy strings of every digest.                                     *)
(***************************************************************************)
UnsaltedAlgs == {PyStr(d) : d \in DigestNames} \cup {PyStr(pbkdf2_sha512), PyStr(S(<<"m", "d", "4">>))}

UnsaltedConfigs ==
  {CRYPT(None, d, mn, PyBool(FALSE), mx) : d \in UnsaltedAlgs, mn \in MinLengths,
                                           mx \in MaxLengths}

UnsaltedArgs ==
  {[arg |-> None, by |-> None]}
  \cup {[arg |-> PyStr(x), by |-> None] : x \in Foreign}
  \cup Materialized(Instances(UnsaltedConfigs, Values))
  \cup Legacy(Passwords, DigestNames)

NextUnsalted ==
  \/ Validate(UnsaltedConfigs, Values)
  \/ Str
  \/ Eq(UnsaltedArgs)
  \/ Ne(UnsaltedArgs)
  \/ Return
  \/ Discard

SpecUnsalted == Init /\ [][NextUnsalted]_vars

(***************************************************************************)
(* Properties                                                              *)
(***************************************************************************)
\* the call just made is x == stored (x the instance at hand)
IsEq == call.op = "eq"

\* the string compared with was returned by str() on an instance
FromStr == IsEq /\ call.by.t = "LazyCrypt"

\* CRYPT(digest_alg=D, salt=False) for a supported digest name D
IsUnsalted(crypt) ==
  /\ crypt.digest_alg \in {PyStr(d) : d \in DigestNames}
  /\ crypt.key = None
  /\ crypt.salt = PyBool(FALSE)
  /\ crypt.min_length = 0
  /\ crypt.max_length = 1024

VerifyAcrossAlgorithms ==
  (/\ FromStr
   /\ call.by.crypt.salt = PyBool(TRUE)
   /\ call.by.crypt.key = obj.crypt.key
   /\ call.by.password = obj.password)
  => call.ret = Ok(PyBool(TRUE))

\* C3: the bare hex digest simple_hash(P, '', '', D) and its wrapped form
\* 'D$$<hex>' compare equal to an instance of plaintext P whose encoder has no
\* key, whatever the encoder's digest_alg.
LegacyCompatible ==
  (/\ IsEq
   /\ call.by.t = "legacy"
   /\ obj.crypt.key = None
   /\ call.by.password = obj.password.s)
  => call.ret = Ok(PyBool(TRUE))

\* C3, witness: a bare sha1 hex digest found equal by an instance whose encoder
\* has an unsupported digest_alg
LegacyCompatibleSeen ==
  /\ IsEq
  /\ call.by.t = "legacy"
  /\ ~call.by.wrapped
  /\ call.by.digest_alg = sha1
  /\ obj.crypt.digest_alg = PyStr(S(<<"m", "d", "4">>))
  /\ call.ret = Ok(PyBool(TRUE))

\* the grammar 'pbkdf2(' <iterations> ',' <keylen> ',' <digest name> ')'
IsPbkdf2Descriptor(d) ==
  /\ StartsWith(d, pbkdf2 \o S(<<"(">>))
  /\ d[Len(d)] = Ch(")")
  /\ Len(Split(SubSeq(d, 8, Len(d) - 1), ",")) = 3
  /\ \A i \in 1..2 :
       /\ Split(SubSeq(d, 8, Len(d) - 1), ",")[i] # <<>>
       /\ \A x \in {Split(SubSeq(d, 8, Len(d) - 1), ",")[i][j] :
                      j \in 1..Len(Split(SubSeq(d, 8, Len(d) - 1), ",")[i])} : IsDigit(x)
       /\ Decimal(Split(SubSeq(d, 8, Len(d) - 1), ",")[i]) > 0
  /\ Lower(Split(SubSeq(d, 8, Len(d) - 1), ",")[3]) \in DigestNames

\* a supported descriptor: a digest name or a pbkdf2 descriptor
IsDescriptor(d) == Lower(d) \in DigestNames \/ IsPbkdf2Descriptor(d)

\* the lengths of the legacy hashes
LegacySizes == {32, 40, 56, 64, 96, 128}

\* neither 'descriptor$salt$hex' with a supported descriptor nor a bare string
\* of a legacy length
IsMalformed(s) ==
  /\ ~(Count(s, "$") = 2 /\ IsDescriptor(Split(s, "$")[1]))
  /\ ~(Count(s, "$") = 0 /\ PyLen(s) \in LegacySizes)

\* C4 (as stated): comparing with a malformed stored string returns False
MalformedIsFalse ==
  (IsEq /\ IsStr(call.arg) /\ IsMalformed(call.arg.s)) => call.ret = Ok(PyBool(FALSE))

\* the stored value is None, the empty string, or has not exactly two '$' and
\* no legacy length
IsUnverifiable(v) ==
  \/ v = None
  \/ /\ IsStr(v)
     /\ \/ v.s = <<>>
        \/ Count(v.s, "$") # 2 /\ PyLen(v.s) \notin LegacySizes

\* C5: __eq__ returns False, without calling simple_hash, when the stored value
\* is None, the empty string, or has not exactly two '$' and no legacy length.
UnverifiableIsFalse ==
  (IsEq /\ IsUnverifiable(call.arg)) => (call.ret = Ok(PyBool(FALSE)) /\ call.hashed = 0)

\* C5, witness: compared with 'a$b$c$d'
UnverifiableIsFalseSeen ==
  /\ IsEq
  /\ call.arg = PyStr(S(<<"a", "$", "b", "$", "c", "$", "d">>))
  /\ call.ret = Ok(PyBool(FALSE))

StoredHashShape ==
  (call.op = "str" /\ call.ret.ok)
  => (Count(call.ret.val.s, "$") = 2 /\ Split(call.ret.val.s, "$")[1] # <<>>)

\* C8 (as stated, for the salts without '$'): an instance compares equal to
\* its own materialized string, whatever its key
EqualsOwnString ==
  (/\ IsEq
   /\ IsStr(obj.crypted)
   /\ call.arg = obj.crypted
   /\ ~(IsStr(obj.crypt.salt) /\ Contains(obj.crypt.salt.s, "$")))
  => call.ret = Ok(PyBool(TRUE))

\* C9 (as stated): two instances compare equal, without hashing, exactly when
\* their encoders have the same key and digest_alg and their plaintexts agree
InstancesEqualByConfig ==
  (IsEq /\ call.arg.t = "LazyCrypt" /\ ~call.arg.same)
  => /\ call.hashed = 0
     /\ call.ret = Ok(PyBool(/\ obj.crypt.key = call.arg.crypt.key
                             /\ obj.crypt.digest_alg = call.arg.crypt.digest_alg
                             /\ obj.password = call.arg.password))

\* C10: validate of the placeholder '******' returns None for every
\* configuration, constructs no LazyCrypt and calls simple_hash not once.
SentinelBypass ==
  (call.op = "validate" /\ call.value = PyStr(Rep("*", 6)))
  => (call.ret = Ok(None) /\ ~call.created /\ call.hashed = 0 /\ obj = None)

\* C10, witness: the placeholder passed to an encoder with min_length 7
SentinelBypassSeen ==
  /\ call.op = "validate"
  /\ call.value = PyStr(Rep("*", 6))
  /\ call.crypt.min_length = 7
  /\ call.ret = Ok(None)

(***************************************************************************)
(* The length bounds of CRYPT: encoders with a small max_length and a      *)
(* min_length above it.                                                    *)
(***************************************************************************)
BoundsMinLengths == {0, 4}

BoundsMaxLengths == {2, 1024}

BoundsConfigs ==
  {CRYPT(None, PyStr(md5), mn, s, mx) :
     mn \in BoundsMinLengths, s \in {PyBool(FALSE), PyBool(TRUE)}, mx \in BoundsMaxLengths}

BoundsArgs ==
  {[arg |-> None, by |-> None]} \cup Materialized(Instances(BoundsConfigs, Values))

NextBounds ==
  \/ Validate(BoundsConfigs, Values)
  \/ Str
  \/ Eq(BoundsArgs)
  \/ Ne(BoundsArgs)
  \/ Return
  \/ Discard

SpecBounds == Init /\ [][NextBounds]_vars

\* C11 (as stated): validate of a plaintext shorter than min_length or longer
\* than max_length raises a validation error and returns no LazyCrypt
LengthBoundsEnforced ==
  (/\ call.op = "validate"
   /\ IsStr(call.value)
   /\ call.value # PyStr(Rep("*", 6))
   /\ \/ PyLen(call.value.s) < call.crypt.min_length
      \/ PyLen(call.value.s) > call.crypt.max_length)
  => call.ret = Raise("ValidationError") /\ ~call.created

\* C12 (as stated): an encoder with an unsupported digest name or a malformed
\* pbkdf2 descriptor cannot be constructed, so no str() of a LazyCrypt made
\* by an encoder raises a configuration error
ConfigErrorsAtConstruction == call.op = "str" => call.ret.ok

(***************************************************************************)
(* simple_hash and get_digest called directly.                             *)
(***************************************************************************)
Descriptors ==
  {None, PyStr(<<>>)}
  \cup {PyStr(d) : d \in {
         S(<<"m", "d", "5">>),
         S(<<"S", "H", "A", "1">>),
         S(<<"m", "d", "4">>),
         S(<<"p", "b", "k", "d", "f", "2", "(", "1", "0", ",", "2", ",", "m", "d", "5", ")">>),
         S(<<"p", "b", "k", "d", "f", "2", "[", "1", "0", ",", "2", ",", "m", "d", "5", "]">>),
         S(<<"p", "b", "k", "d", "f", "2", "x", "1", "0", ",", "2", ",", "m", "d", "5", "y">>),
         S(<<"p", "b", "k", "d", "f", "2", "(", " ", "1", "0", ",", "+", "2", ",", "S", "H", "A", "1", ")">>),
         S(<<"p", "b", "k", "d", "f", "2">>),
         S(<<"p", "b", "k", "d", "f", "2", "(", ")">>),
         S(<<"p", "b", "k", "d", "f", "2", "(", "1", "0", ",", "2", ",", "m", "d", "5">>),
         S(<<"p", "b", "k", "d", "f", "2", "(", "0", ",", "2", ",", "m", "d", "5", ")">>),
         S(<<"p", "b", "k", "d", "f", "2", "(", "1", "0", ",", "0", ",", "m", "d", "5", ")">>),
         S(<<"p", "b", "k", "d", "f", "2", "(", "-", "1", ",", "2", ",", "m", "d", "5", ")">>),
         S(<<"p", "b", "k", "d", "f", "2", "(", "1", "0", ",", "-", "2", ",", "m", "d", "5", ")">>),
         S(<<"p", "b", "k", "d", "f", "2", "(", "1", "0", ",", "2", ",", "m", "d", "4", ")">>),
         S(<<"p", "b", "k", "d", "f", "2", "(", "1", "0", ",", "2", ")">>),
         S(<<"p", "b", "k", "d", "f", "2", "(", "1", "0", ",", "2", ",", "m", "d", "5", ",", "x", ")">>),
         S(<<"p", "b", "k", "d", "f", "2", "(", "a", ",", "2", ",", "m", "d", "5", ")">>),
         S(<<"p", "b", "k", "d", "f", "2", "1", "0", ",", "2", ",", "m", "d", "5", ")">>)}}

HashTexts == {S(<<"a", "b", "c">>), <<>>}

HashKeys == {<<>>, S(<<"k">>), S(<<"j">>)}

HashSalts == {<<>>, S(<<"s">>)}

DigestInputs == {
  S(<<"m", "d", "5">>),
  S(<<"M", "D", "5">>),
  S(<<"S", "h", "a", "1">>),
  S(<<"s", "h", "a", "2", "2", "4">>),
  S(<<"S", "H", "A", "2", "5", "6">>),
  S(<<"s", "h", "a", "3", "8", "4">>),
  S(<<"s", "H", "a", "5", "1", "2">>),
  S(<<"m", "d", "4">>),
  <<>>,
  S(<<"s", "h", "a">>),
  S(<<"m", "d", "5", " ">>),
  S(<<"s", "h", "a", "-", "1">>),
  S(<<"s", "h", "a", "3", "_", "2", "5", "6">>),
  S(<<"S", "H", "A", "5", "1", "2", " ">>)}

\* simple_hash(text, key, salt, digest_alg)
SimpleHash ==
  /\ call = Idle
  /\ \E text \in HashTexts, key \in HashKeys, salt \in HashSalts, d \in Descriptors :
       \E r \in {simple_hash(text, key, salt, d)} :
         call' = [op |-> "simple_hash", text |-> text, key |-> key, salt |-> salt,
                  digest_alg |-> d, ret |-> r]
  /\ UNCHANGED obj

\* get_digest(value)
GetDigest ==
  /\ call = Idle
  /\ \E value \in DigestInputs :
       \E r \in {get_digest(value)} :
         call' = [op |-> "get_digest", value |-> value, ret |-> r]
  /\ UNCHANGED obj

NextHash ==
  \/ SimpleHash
  \/ GetDigest
  \/ Return

SpecHash == Init /\ [][NextHash]_vars

\* C13 (as stated): simple_hash raises for every descriptor that starts with
\* 'pbkdf2' and is not 'pbkdf2(' <iterations> ',' <keylen> ',' <digest> ')'
\* with positive decimal numbers and a supported digest name
Pbkdf2GrammarEnforced ==
  (/\ call.op = "simple_hash"
   /\ IsStr(call.digest_alg)
   /\ StartsWith(call.digest_alg.s, pbkdf2)
   /\ ~IsPbkdf2Descriptor(call.digest_alg.s))
  => ~call.ret.ok

\* a and b are the same up to the case of their letters
SameIgnoringCase(a, b) ==
  /\ Len(a) = Len(b)
  /\ \A i \in 1..Len(a) :
       \/ a[i] = b[i]
       \/ \E j \in 1..26 : {a[i], b[i]} = {Ch(UpperCase[j]), Ch(LowerCase[j])}

\* C14: get_digest accepts exactly the six names md5, sha1, sha224, sha256,
\* sha384, sha512 in any letter case and returns the digest of that name; for
\* every other string it raises ValueError.
GetDigestExact ==
  call.op = "get_digest"
  => IF \E n \in DigestNames : SameIgnoringCase(call.value, n)
     THEN \E n \in DigestNames : SameIgnoringCase(call.value, n) /\ call.ret = Ok(n)
     ELSE call.ret = Raise("ValueError")

\* C14, witness: get_digest('sHa512') returned sha512
GetDigestExactSeen ==
  /\ call.op = "get_digest"
  /\ call.value = S(<<"s", "H", "a", "5", "1", "2">>)
  /\ call.ret = Ok(sha512)

(***************************************************************************)
(* calc_entropy.  A byte is its value 0..255; the characters of the model  *)
(* are the printable ASCII characters, one byte each, and two characters   *)
(* of two and three bytes.  The entropy, a float rounded to two decimals,  *)
(* is kept in hundredths.                                                  *)
(***************************************************************************)
\* the characters with the codes 32..126, in the order of their codes (the
\* grave accent, code 96, is written "grave")
Printable ==
  <<" ", "!", "\"", "#", "$", "%", "&", "'", "(", ")", "*", "+", ",", "-", ".", "/",
    "0", "1", "2", "3", "4", "5", "6", "7", "8", "9", ":", ";", "<", "=", ">", "?",
    "@", "A", "B", "C", "D", "E", "F", "G", "H", "I", "J", "K", "L", "M", "N", "O",
    "P", "Q", "R", "S", "T", "U", "V", "W", "X", "Y", "Z", "[", "\\", "]", "^", "_",
    "grave", "a", "b", "c", "d", "e", "f", "g", "h", "i", "j", "k", "l", "m", "n", "o",
    "p", "q", "r", "s", "t", "u", "v", "w", "x", "y", "z", "{", "|", "}", "~">>

\* ord(c): the code of an ASCII character; two characters outside ASCII are
\* written by name, "ntilde" (U+00F1) and "euro" (U+20AC)
Ord(c) ==
  IF c = "ntilde" THEN 241
  ELSE IF c = "euro" THEN 8364
  ELSE 31 + CHOOSE i \in 1..Len(Printable) : Printable[i] = c

\* the UTF-8 encoding of the character with code n < 65536, as byte values
Utf8(n) ==
  IF n < 128 THEN <<n>>
  ELSE IF n < 2048 THEN <<192 + (n \div 64), 128 + (n % 64)>>
  ELSE <<224 + (n \div 4096), 128 + ((n \div 64) % 64), 128 + (n % 64)>>

RECURSIVE Encode(_)
\* to_bytes(string) of a str, as byte values
Encode(s) == IF s = <<>> THEN <<>> ELSE Utf8(Ord(Head(s).v)) \o Encode(Tail(s))

\* frozenset(b"...")
Bytes(t) == {Ord(t[i]) : i \in 1..Len(t)}

lowerset == 97..122

upperset == 65..90

numberset == 48..57

sym1set == Bytes(<<"!", "@", "#", "$", "%", "^", "&", "*", "(", ")", " ">>)

sym2set ==
  Bytes(<<"~", "grave", "-", "_", "=", "+", "[", "]", "{", "}", "\\", "|", ";", ":", "'", "\"",
          ",", ".", "<", ">", "?", "/">>)

\* the bytes of chr(x).encode() for x in range(256): x itself below 128, and
\* above it the two bytes 0xC2 or 0xC3 and 0x80..0xBF
otherset == (0..127) \cup {194, 195} \cup (128..191)

\* (lowerset, upperset, numberset, sym1set, sym2set, otherset)
CharSets == <<lowerset, upperset, numberset, sym1set, sym2set, otherset>>

\* the first of the six sets that holds c (its position), 0 when none does
InSet(c) ==
  IF \E i \in 1..6 : c \in CharSets[i]
  THEN CHOOSE i \in 1..6 : c \in CharSets[i] /\ \A j \in 1..(i - 1) : c \notin CharSets[j]
  ELSE 0

RECURSIVE Scan(_, _, _, _, _)
\* the loop of calc_entropy over the bytes left: the alphabet size, or the
\* failed assertion
Scan(string, alphabet, other, seen, lastset) ==
  LET Step(c, inset) ==
        IF inset = 0 THEN Raise("AssertionError")
        ELSE Scan(Tail(string),
                  alphabet
                  + (IF inset \notin seen THEN Cardinality(CharSets[inset])
                     ELSE IF c \notin other THEN 1 ELSE 0)
                  + (IF inset # lastset THEN 1 ELSE 0),
                  IF inset \in seen /\ c \notin other THEN other \cup {c} ELSE other,
                  seen \cup {inset},
                  inset)
  IN IF string = <<>> THEN Ok(alphabet) ELSE Step(Head(string), InSet(Head(string)))

\* math.log(n) / 0.6931471805599453 in millionths, for n = 1..320
Log2Micro ==
  <<0, 1000000, 1584963, 2000000, 2321928, 2584963, 2807355, 3000000, 3169925, 3321928,
    3459432, 3584963, 3700440, 3807355, 3906891, 4000000, 4087463, 4169925, 4247928, 4321928,
    4392317, 4459432, 4523562, 4584963, 4643856, 4700440, 4754888, 4807355, 4857981, 4906891,
    4954196, 5000000, 5044394, 5087463, 5129283, 5169925, 5209453, 5247928, 5285402, 5321928,
    5357552, 5392317, 5426265, 5459432, 5491853, 5523562, 5554589, 5584963, 5614710, 5643856,
    5672425, 5700440, 5727920, 5754888, 5781360, 5807355, 5832890, 5857981, 5882643, 5906891,
    5930737, 5954196, 5977280, 6000000, 6022368, 6044394, 6066089, 6087463, 6108524, 6129283,
    6149747, 6169925, 6189825, 6209453, 6228819, 6247928, 6266787, 6285402, 6303781, 6321928,
    6339850, 6357552, 6375039, 6392317, 6409391, 6426265, 6442943, 6459432, 6475733, 6491853,
    6507795, 6523562, 6539159, 6554589, 6569856, 6584963, 6599913, 6614710, 6629357, 6643856,
    6658211, 6672425, 6686501, 6700440, 6714246, 6727920, 6741467, 6754888, 6768184, 6781360,
    6794416, 6807355, 6820179, 6832890, 6845490, 6857981, 6870365, 6882643, 6894818, 6906891,
    6918863, 6930737, 6942515, 6954196, 6965784, 6977280, 6988685, 7000000, 7011227, 7022368,
    7033423, 7044394, 7055282, 7066089, 7076816, 7087463, 7098032, 7108524, 7118941, 7129283,
    7139551, 7149747, 7159871, 7169925, 7179909, 7189825, 7199672, 7209453, 7219169, 7228819,
    7238405, 7247928, 7257388, 7266787, 7276124, 7285402, 7294621, 7303781, 7312883, 7321928,
    7330917, 7339850, 7348728, 7357552, 7366322, 7375039, 7383704, 7392317, 7400879, 7409391,
    7417853, 7426265, 7434628, 7442943, 7451211, 7459432, 7467606, 7475733, 7483816, 7491853,
    7499846, 7507795, 7515700, 7523562, 7531381, 7539159, 7546894, 7554589, 7562242, 7569856,
    7577429, 7584963, 7592457, 7599913, 7607330, 7614710, 7622052, 7629357, 7636625, 7643856,
    7651052, 7658211, 7665336, 7672425, 7679480, 7686501, 7693487, 7700440, 7707359, 7714246,
    7721099, 7727920, 7734710, 7741467, 7748193, 7754888, 7761551, 7768184, 7774787, 7781360,
    7787903, 7794416, 7800900, 7807355, 7813781, 7820179, 7826548, 7832890, 7839204, 7845490,
    7851749, 7857981, 7864186, 7870365, 7876517, 7882643, 7888743, 7894818, 7900867, 7906891,
    7912889, 7918863, 7924813, 7930737, 7936638, 7942515, 7948367, 7954196, 7960002, 7965784,
    7971544, 7977280, 7982994, 7988685, 7994353, 8000000, 8005625, 8011227, 8016808, 8022368,
    8027906, 8033423, 8038919, 8044394, 8049849, 8055282, 8060696, 8066089, 8071462, 8076816,
    8082149, 8087463, 8092757, 8098032, 8103288, 8108524, 8113742, 8118941, 8124121, 8129283,
    8134426, 8139551, 8144658, 8149747, 8154818, 8159871, 8164907, 8169925, 8174926, 8179909,
    8184875, 8189825, 8194757, 8199672, 8204571, 8209453, 8214319, 8219169, 8224002, 8228819,
    8233620, 8238405, 8243174, 8247928, 8252665, 8257388, 8262095, 8266787, 8271463, 8276124,
    8280771, 8285402, 8290019, 8294621, 8299208, 8303781, 8308339, 8312883, 8317413, 8321928>>

\* round(length * log2(alphabet or 1), 2), in hundredths
Round2(length, alphabet) ==
  (length * Log2Micro[IF alphabet = 0 THEN 1 ELSE alphabet] + 5000) \div 10000

\* calc_entropy(string) for None or a str: the entropy in hundredths
calc_entropy(string) ==
  LET Entropy(bytes, alphabet) ==
        IF ~alphabet.ok THEN alphabet ELSE Ok(Round2(Len(bytes), alphabet.val))
      Of(bytes) == Entropy(bytes, Scan(bytes, 0, {}, {}, 0))
  IN Of(IF Truthy(string) THEN Encode(string.s) ELSE <<>>)

(***************************************************************************)
(* IS_STRONG.  A rule argument is None, a bool or an int; the failures are *)
(* kept as records in place of the translated messages.                    *)
(***************************************************************************)
PyInt(n) == [t |-> "int", n |-> n]

\* isinstance(v, int): a bool is an int
IsInt(v) == v.t \in {"int", "bool"}

\* the number an int or a bool counts as
IntVal(v) == IF v.t = "bool" THEN (IF v.b THEN 1 ELSE 0) ELSE v.n

\* no default: x as given
DefaultNone(x, d) == x

\* 1 if x is None else x
Default(x, d) == IF x = None THEN PyInt(d) ELSE x

\* IS_STRONG.__init__ (es, which only picks the separator of the messages,
\* is left out)
IS_STRONG(min, max, upper, lower, number, entropy, special, specials, invalid, error_message) ==
  IF entropy = None
  THEN [entropy |-> entropy, min |-> Default(min, 8), max |-> max,
        upper |-> Default(upper, 1), lower |-> Default(lower, 1),
        number |-> Default(number, 1), special |-> Default(special, 1),
        specials |-> specials, invalid |-> invalid, error_message |-> error_message]
  ELSE [entropy |-> entropy, min |-> min, max |-> max, upper |-> upper, lower |-> lower,
        number |-> number, special |-> special,
        specials |-> specials, invalid |-> invalid, error_message |-> error_message]

\* value and len(value) == value.count("*") > 4, with more than 3 in place of 4
IsPlaceholderFour(value) ==
  value # <<>> /\ Len(value) = Count(value, "*") /\ Count(value, "*") > 3

\* value and len(value) == value.count("*") > 4
IsPlaceholder(value) ==
  value # <<>> /\ Len(value) = Count(value, "*") /\ Count(value, "*") > 4

\* [ch in value for ch in chars].count(True)
CountPresent(chars, value) ==
  Cardinality({i \in 1..Len(chars) : \E j \in 1..Len(value) : value[j] = chars[i]})

\* len(re.findall("[A-Z]", value)), for the range of a class
CountFound(range, value) == Cardinality({j \in 1..Len(value) : Ord(value[j].v) \in range})

\* the invalid rule looked at only when a special rule is configured
InvalidFailuresNested(self, value) ==
  IF IsInt(self.special) /\ Truthy(self.invalid) /\ CountPresent(self.invalid.s, value) > 0
  THEN <<[rule |-> "invalid", kind |-> "none"]>>
  ELSE <<>>

\* if self.invalid: ...
InvalidFailures(self, value) ==
  IF Truthy(self.invalid) /\ CountPresent(self.invalid.s, value) > 0
  THEN <<[rule |-> "invalid", kind |-> "none"]>>
  ELSE <<>>

\* the failures of the entropy floor, given calc_entropy(value)
EntropyFailures(self, entropy) ==
  IF self.entropy # None /\ entropy.val < 100 * IntVal(self.entropy)
  THEN <<[rule |-> "entropy", kind |-> "least", need |-> IntVal(self.entropy)]>>
  ELSE <<>>

\* if isinstance(self.min, int) and self.min > 0: ...
MinFailures(self, value) ==
  IF IsInt(self.min) /\ IntVal(self.min) > 0 /\ ~(Len(value) >= IntVal(self.min))
  THEN <<[rule |-> "min", kind |-> "least", need |-> IntVal(self.min)]>>
  ELSE <<>>

\* if isinstance(self.max, int) and self.max > 0: ...
MaxFailures(self, value) ==
  IF IsInt(self.max) /\ IntVal(self.max) > 0 /\ ~(Len(value) <= IntVal(self.max))
  THEN <<[rule |-> "max", kind |-> "most", need |-> IntVal(self.max)]>>
  ELSE <<>>

\* a class rule without "is not False": False forbids the class like 0
ClassFailuresFalseForbids(rule, cfg, count) ==
  IF ~IsInt(cfg) THEN <<>>
  ELSE IF IntVal(cfg) > 0
  THEN IF ~(count >= IntVal(cfg))
       THEN <<[rule |-> rule, kind |-> "least", need |-> IntVal(cfg)]>> ELSE <<>>
  ELSE IF IntVal(cfg) = 0
  THEN IF count > 0 THEN <<[rule |-> rule, kind |-> "none"]>> ELSE <<>>
  ELSE <<>>

\* a class rule (special, upper, lower, number) configured as cfg, for the
\* count of the class in the value
ClassFailures(rule, cfg, count) ==
  IF ~IsInt(cfg) THEN <<>>
  ELSE IF IntVal(cfg) > 0
  THEN IF ~(count >= IntVal(cfg))
       THEN <<[rule |-> rule, kind |-> "least", need |-> IntVal(cfg)]>> ELSE <<>>
  ELSE IF IntVal(cfg) = 0 /\ cfg # PyBool(FALSE)
  THEN IF count > 0 THEN <<[rule |-> rule, kind |-> "none"]>> ELSE <<>>
  ELSE <<>>

\* the rules stopping at the first failure
StrongFailuresFirst(self, v, entropy) ==
  LET First(all) == IF all = <<>> THEN <<>> ELSE <<Head(all)>>
  IN First(EntropyFailures(self, entropy)
         \o MinFailures(self, v)
         \o MaxFailures(self, v)
         \o ClassFailures("special", self.special, CountPresent(self.specials, v))
         \o InvalidFailures(self, v)
         \o ClassFailures("upper", self.upper, CountFound(upperset, v))
         \o ClassFailures("lower", self.lower, CountFound(lowerset, v))
         \o ClassFailures("number", self.number, CountFound(numberset, v)))

\* failures after every rule has been looked at, in the order of the code
StrongFailures(self, v, entropy) ==
  EntropyFailures(self, entropy)
  \o MinFailures(self, v)
  \o MaxFailures(self, v)
  \o ClassFailures("special", self.special, CountPresent(self.specials, v))
  \o InvalidFailures(self, v)
  \o ClassFailures("upper", self.upper, CountFound(upperset, v))
  \o ClassFailures("lower", self.lower, CountFound(lowerset, v))
  \o ClassFailures("number", self.number, CountFound(numberset, v))

\* what the ValidationError carries: the failures joined, or error_message
StrongError(self, failures) ==
  IF ~Truthy(self.error_message) THEN [t |-> "list", items |-> failures]
  ELSE self.error_message

\* IS_STRONG.validate(value) for None or a str: what it returns or raises, the
\* failures list and what the error carries
IS_STRONG_validate(self, value) ==
  LET Done(v, failures) ==
        IF Len(failures) = 0
        THEN [ret |-> Ok(PyStr(v)), failures |-> failures, error |-> None]
        ELSE [ret |-> Raise("ValidationError"), failures |-> failures,
              error |-> StrongError(self, failures)]
      Rules(v, entropy) ==
        IF ~entropy.ok THEN [ret |-> entropy, failures |-> <<>>, error |-> None]
        ELSE Done(v, StrongFailures(self, v, entropy))
      Of(v) ==
        IF IsPlaceholder(v) THEN [ret |-> Ok(PyStr(v)), failures |-> <<>>, error |-> None]
        ELSE Rules(v, IF self.entropy # None THEN calc_entropy(PyStr(v)) ELSE Ok(0))
  IN Of(IF value = None THEN <<>> ELSE value.s)

SPECIALS == S(<<"~", "!", "@", "#", "$", "%", "^", "&", "*", "(", ")", "_", "+", "-", "=", "?", "<", ">", ",", ".", ":", ";", "{", "}", "[", "]", "|">>)

INVALID == PyStr(S(<<" ", "\"">>))

StrongMins == {None, PyInt(2)}

StrongMaxs == {None, PyInt(3)}

StrongUppers == {None, PyBool(FALSE), PyInt(0)}

StrongLowers == {None, PyBool(FALSE), PyInt(0)}

StrongNumbers == {None, PyBool(FALSE)}

StrongSpecials == {None, PyBool(FALSE), PyInt(0), PyInt(2)}

StrongEntropies == {None, PyInt(1), PyInt(100)}

StrongInvalids == {INVALID, PyStr(<<>>), PyStr(S(<<"*">>))}

StrongMessages == {None, PyStr(S(<<"w", "e", "a", "k">>))}

StrongValues ==
  {None, PyStr(<<>>)}
  \cup {PyStr(v) : v \in {
         S(<<"a">>),
         S(<<"A", "1">>),
         S(<<"!", "!">>),
         S(<<"a", " ", "b">>),
         S(<<"*", "*", "*", "*">>),
         S(<<"*", "*", "*", "*", "*">>),
         S(<<"A", "b", "c", "d", "1", "2", "3", "4">>),
         S(<<"A", "b", "c", "d", "1", "2", "3", "4", "!">>)}}

\* IS_STRONG(...).validate(value)
Strong ==
  /\ call = Idle
  /\ \E mn \in StrongMins, mx \in StrongMaxs, up \in StrongUppers, lo \in StrongLowers,
        nu \in StrongNumbers, en \in StrongEntropies, sp \in StrongSpecials,
        inv \in StrongInvalids, msg \in StrongMessages, value \in StrongValues :
       \E r \in {IS_STRONG_validate(IS_STRONG(mn, mx, up, lo, nu, en, sp, SPECIALS, inv, msg),
                                    value)} :
         call' = [op |-> "is_strong",
                  args |-> [min |-> mn, max |-> mx, upper |-> up, lower |-> lo,
                            number |-> nu, entropy |-> en, special |-> sp],
                  self |-> IS_STRONG(mn, mx, up, lo, nu, en, sp, SPECIALS, inv, msg),
                  value |-> value, ret |-> r.ret, failures |-> r.failures,
                  error |-> r.error]
  /\ UNCHANGED obj

NextStrong ==
  \/ Strong
  \/ Return

SpecStrong == Init /\ [][NextStrong]_vars

\* the call just made is IS_STRONG(...).validate(value)
IsStrong == call.op = "is_strong"

\* the password of the call ("" for None)
Password == IF call.value = None THEN <<>> ELSE call.value.s

\* v is non-empty, all asterisks and longer than 4
Bypassed(v) == v # <<>> /\ (\A j \in 1..Len(v) : v[j] = Ch("*")) /\ Len(v) > 4

\* the characters of v that are among chars, counting every occurrence
Occurrences(chars, v) ==
  Cardinality({j \in 1..Len(v) : \E i \in 1..Len(chars) : chars[i] = v[j]})

\* the occurrences in v of the class of a class rule
ClassCount(rule, self, v) ==
  CASE rule = "special" -> Occurrences(self.specials, v)
    [] rule = "upper" -> Occurrences(S(UpperCase), v)
    [] rule = "lower" -> Occurrences(S(LowerCase), v)
    [] rule = "number" -> Occurrences(S(Digits), v)

ClassRules == {"special", "upper", "lower", "number"}

\* the entries of the failures list for a rule
RuleEntries(rule) == {i \in 1..Len(call.failures) : call.failures[i].rule = rule}

\* a threshold rule is unmet: fewer than a positive threshold, or any under 0
Unmet(cfg, count) ==
  /\ IsInt(cfg)
  /\ \/ IntVal(cfg) > 0 /\ count < IntVal(cfg)
     \/ cfg = PyInt(0) /\ count > 0

\* the rules of self that v violates
ViolatedRules(self, v) ==
  {r \in ClassRules \cup {"entropy", "min", "max", "invalid"} :
     CASE r = "entropy" ->
            self.entropy # None /\ calc_entropy(PyStr(v)).val < 100 * IntVal(self.entropy)
       [] r = "min" -> IsInt(self.min) /\ IntVal(self.min) > 0 /\ Len(v) < IntVal(self.min)
       [] r = "max" -> IsInt(self.max) /\ IntVal(self.max) > 0 /\ Len(v) > IntVal(self.max)
       [] r = "invalid" -> Truthy(self.invalid) /\ Occurrences(self.invalid.s, v) > 0
       [] r = "special" -> Unmet(self.special, CountPresent(self.specials, v))
       [] OTHER -> Unmet(self[r], ClassCount(r, self, v))}

ClassRuleCountsOccurrences ==
  (IsStrong /\ ~Bypassed(Password))
  => \A r \in ClassRules :
       (call.self[r].t = "int" /\ call.self[r].n > 0)
       => (RuleEntries(r) # {} <=> ClassCount(r, call.self, Password) < call.self[r].n)

InvalidAlwaysFails ==
  (/\ IsStrong
   /\ Truthy(call.self.invalid)
   /\ Occurrences(call.self.invalid.s, Password) > 0
   /\ ~Bypassed(Password))
  => call.ret = Raise("ValidationError") /\ RuleEntries("invalid") # {}

\* C18, witness: 'a b' failed on the invalid rule alone, with an entropy floor
\* it meets and no other rule
InvalidAlwaysFailsSeen ==
  /\ IsStrong
  /\ call.value = PyStr(S(<<"a", " ", "b">>))
  /\ call.args.entropy = PyInt(1)
  /\ \A r \in ClassRules : call.args[r] = None
  /\ call.ret = Raise("ValidationError")
  /\ Len(call.failures) = 1
  /\ call.failures[1].rule = "invalid"

\* C19: an all-'*' password longer than 4 is returned unchanged with no
\* failures under every configuration; an all-'*' password of length 4 or
\* less is evaluated by the rules like any other.
PlaceholderBypass ==
  LET Evaluated(violated) ==
        /\ Len(call.failures) = Cardinality(violated)
        /\ call.ret.ok <=> violated = {}
  IN IsStrong
     => /\ Bypassed(Password) => (call.ret = Ok(call.value) /\ call.failures = <<>>)
        /\ (Password # <<>> /\ Len(Password) = Count(Password, "*") /\ Len(Password) <= 4)
           => Evaluated(ViolatedRules(call.self, Password))

\* C19, witness: '*****' was returned although max is 3, the entropy floor is
\* 100 and '*' is an invalid character
PlaceholderBypassSeen ==
  /\ IsStrong
  /\ call.value = PyStr(Rep("*", 5))
  /\ call.self.max = PyInt(3)
  /\ call.self.entropy = PyInt(100)
  /\ call.self.invalid = PyStr(S(<<"*">>))
  /\ call.ret = Ok(call.value)

\* no rule argument but entropy was given
OnlyEntropy ==
  /\ call.args.min = None /\ call.args.max = None
  /\ \A r \in ClassRules : call.args[r] = None

\* C20 (as amended): with an entropy floor and no other rule argument a
\* password is accepted exactly when it is the placeholder or its entropy is
\* at least the floor and it has no invalid character; with no argument at all
\* the defaults min=8, upper=1, lower=1, number=1, special=1 are enforced.
EntropyExclusive ==
  (IsStrong /\ OnlyEntropy)
  => IF call.args.entropy # None
     THEN call.ret.ok
          <=> \/ Bypassed(Password)
              \/ /\ calc_entropy(PyStr(Password)).val >= 100 * call.args.entropy.n
                 /\ ~(Truthy(call.self.invalid)
                      /\ Occurrences(call.self.invalid.s, Password) > 0)
     ELSE /\ call.self.min = PyInt(8)
          /\ \A r \in ClassRules : call.self[r] = PyInt(1)
          /\ call.ret.ok
             <=> \/ Bypassed(Password)
                 \/ /\ Len(Password) >= 8
                    /\ \A r \in ClassRules : ClassCount(r, call.self, Password) >= 1
                    /\ ~(Truthy(call.self.invalid)
                         /\ Occurrences(call.self.invalid.s, Password) > 0)

\* C20, witness: IS_STRONG(entropy=1) accepted 'a'
EntropyExclusiveSeen ==
  /\ IsStrong
  /\ OnlyEntropy
  /\ call.args.entropy = PyInt(1)
  /\ call.value = PyStr(S(<<"a">>))
  /\ call.ret = Ok(call.value)

\* C20 (as stated): with an entropy floor and no other rule argument a
\* password is accepted exactly when its entropy is at least the floor
EntropyOnly ==
  (IsStrong /\ OnlyEntropy /\ call.args.entropy # None)
  => (call.ret.ok <=> calc_entropy(PyStr(Password)).val >= 100 * call.args.entropy.n)

(***************************************************************************)
(* calc_entropy on its own: the strings over a few characters of every     *)
(* class, and pairs of strings that differ in their last character.        *)
(***************************************************************************)
MaxEntropyLen == 3

\* lower, upper, digit, symbol, two bytes of otherset, three bytes
EntropyChars == {"a", "n", "d", "B", "1", "!", "ntilde", "euro"}

\* the strings of at most n of these characters
EntropySeqs(n) == UNION {[1..k -> {Ch(c) : c \in EntropyChars}] : k \in 0..n}

\* the strings of the doctests of IS_STRONG and 'aB1!'
EntropyExamples ==
  {S(<<"a", "b", "c", "1", "2", "3">>), S(<<"a", "B", "1", "!">>),
   S(<<"a", "ntilde", "d">>)}

EntropyInputs ==
  {None} \cup {PyStr(t) : t \in EntropySeqs(MaxEntropyLen) \cup EntropyExamples}

\* s + c and s + d, and 'aB1!' with 'a'
EntropyPairs ==
  {<<t \o <<Ch(c)>>, t \o <<Ch(d)>>>> :
     t \in EntropySeqs(MaxEntropyLen - 1), c \in EntropyChars, d \in EntropyChars}
  \cup {<<S(<<"a", "B", "1", "!">>), S(<<"a">>)>>}

\* the alphabet size the loop of calc_entropy reaches for a str or None
Alphabet(string) == Scan(IF Truthy(string) THEN Encode(string.s) ELSE <<>>, 0, {}, {}, 0)

\* calc_entropy(string)
Entropy ==
  /\ call = Idle
  /\ \E string \in EntropyInputs :
       \E r \in {calc_entropy(string)} :
         call' = [op |-> "calc_entropy", string |-> string,
                  alphabet |-> Alphabet(string), ret |-> r]
  /\ UNCHANGED obj

\* calc_entropy(left) and calc_entropy(right)
EntropyPair ==
  /\ call = Idle
  /\ \E p \in EntropyPairs :
       \E l \in {calc_entropy(PyStr(p[1]))}, r \in {calc_entropy(PyStr(p[2]))} :
         call' = [op |-> "entropy_pair", left |-> p[1], right |-> p[2],
                  alphabets |-> <<Alphabet(PyStr(p[1])), Alphabet(PyStr(p[2]))>>,
                  rets |-> <<l, r>>]
  /\ UNCHANGED obj

NextEntropy ==
  \/ Entropy
  \/ EntropyPair
  \/ Return

SpecEntropy == Init /\ [][NextEntropy]_vars

(***************************************************************************)
(* Properties of calc_entropy                                              *)
(***************************************************************************)
IsEntropy == call.op = "calc_entropy"

IsPair == call.op = "entropy_pair"

\* the classes (positions in CharSets, 0 for none) of the bytes of a string
ClassesOf(t) == {InSet(Encode(t)[i]) : i \in 1..Len(Encode(t))}

\* every byte of t has a class
Classified(t) == 0 \notin ClassesOf(t)

\* C21 (as stated): for every string s, every character c whose class does
\* not occur in s and every character d whose class occurs in s, the alphabet
\* size and the entropy of s + c are at least those of s + d; and the entropy
\* of 'a' is less than that of 'aB1!'
EntropyMonotone ==
  IsPair =>
    LET s == SubSeq(call.left, 1, Len(call.left) - 1)
        c == <<call.left[Len(call.left)]>>
        d == <<call.right[Len(call.right)]>>
    IN /\ (/\ Len(call.left) = Len(call.right)
           /\ s = SubSeq(call.right, 1, Len(call.right) - 1)
           /\ Classified(c) /\ ClassesOf(c) \cap ClassesOf(s) = {}
           /\ Classified(d) /\ ClassesOf(d) \subseteq ClassesOf(s))
          => /\ call.alphabets[1].ok /\ call.alphabets[2].ok
             /\ call.alphabets[1].val >= call.alphabets[2].val
             /\ call.rets[1].val >= call.rets[2].val
       /\ (call.left = S(<<"a", "B", "1", "!">>) /\ call.right = S(<<"a">>))
          => call.rets[1].val > call.rets[2].val

\* C22 (as stated): every byte of the UTF-8 encoding of a string is in one of
\* the six sets, so calc_entropy never fails with an assertion error
ClassificationTotal ==
  IsEntropy => /\ Classified(IF call.string = None THEN <<>> ELSE call.string.s)
               /\ call.ret.ok

RECURSIVE CardSum(_, _)
\* the sum of the cardinalities of the sets of CharSets at the positions k
CardSum(k, i) ==
  IF i = 0 THEN 0
  ELSE (IF i \in k THEN Cardinality(CharSets[i]) ELSE 0) + CardSum(k, i - 1)

\* the cardinalities of the classes in b, plus the distinct bytes found after
\* the first byte of their class, plus the runs of bytes of one class
AlphabetSize(b) ==
  CardSum({InSet(b[i]) : i \in 1..Len(b)}, 6)
  + Cardinality({b[i] : i \in {j \in 1..Len(b) :
                                 \E h \in 1..(j - 1) : InSet(b[h]) = InSet(b[j])}})
  + Cardinality({i \in 1..Len(b) : i = 1 \/ InSet(b[i - 1]) # InSet(b[i])})

\* the bytes of the string of the call
EntropyBytes == IF call.string = None THEN <<>> ELSE Encode(call.string.s)

\* C23 (as stated): for every byte string the alphabet size calc_entropy
\* computes is the sum of the cardinalities of its classes, plus its distinct
\* characters found after the first of their class, plus its runs of one
\* class: 28 for 'aaa', 29 for 'and', 40 for 'a1d', 42 for 'abc123', 0 for ''
AlphabetIsClassesCharsRuns ==
  IsEntropy =>
    /\ call.alphabet = Ok(AlphabetSize(EntropyBytes))
    /\ call.string = PyStr(S(<<"a", "a", "a">>)) => call.alphabet = Ok(28)
    /\ call.string = PyStr(S(<<"a", "n", "d">>)) => call.alphabet = Ok(29)
    /\ call.string = PyStr(S(<<"a", "1", "d">>)) => call.alphabet = Ok(40)
    /\ call.string = PyStr(S(<<"a", "b", "c", "1", "2", "3">>)) => call.alphabet = Ok(42)
    /\ call.string \in {None, PyStr(<<>>)} => call.alphabet = Ok(0) /\ call.ret = Ok(0)

\* the same for the strings calc_entropy returns for
AlphabetIsClassesCharsRunsClassified ==
  (IsEntropy /\ call.alphabet.ok) => AlphabetIsClassesCharsRuns

(***************************************************************************)
(* Properties of simple_hash                                               *)
(***************************************************************************)
IsSimpleHash == call.op = "simple_hash"

pbkdf2_10_2_md5 ==
  S(<<"p", "b", "k", "d", "f", "2", "(", "1", "0", ",", "2", ",", "m", "d", "5", ")">>)

Pbkdf2IgnoresKey ==
  /\ \A text \in HashTexts, salt \in HashSalts, k1 \in HashKeys, k2 \in HashKeys :
       simple_hash(text, k1, salt, PyStr(pbkdf2_10_2_md5))
       = simple_hash(text, k2, salt, PyStr(pbkdf2_10_2_md5))
  /\ (/\ FromStr
      /\ StartsWith(call.arg.s, pbkdf2)
      /\ call.by.password = obj.password)
     => call.ret = Ok(PyBool(TRUE))

\* the same for the strings with a salt free of '$'
Pbkdf2IgnoresKeyPlainSalt ==
  (FromStr /\ ~(IsStr(call.by.crypt.salt) /\ Contains(call.by.crypt.salt.s, "$")))
  => Pbkdf2IgnoresKey

(***************************************************************************)
(* The formatter, and what it gives handed back to validate.               *)
(***************************************************************************)
\* c.validate(c.formatter(value)): value is None, a str or the instance at hand
FormatValidate(C, V) ==
  /\ call = Idle
  /\ \E c \in C, v \in V \cup {Self}, u \in AutoSalts :
       /\ v = Self => obj # None
       /\ \E f \in {CRYPT_formatter(c, v)} :
            \E r \in {CRYPT_validate(c, f, obj, u)} :
              /\ obj' = r.obj
              /\ call' = [op |-> "formatter", crypt |-> c, value |-> v, formatted |-> f,
                          ret |-> r.ret, created |-> r.created, hashed |-> r.hashed]

NextFormatter ==
  \/ Validate(BoundsConfigs, Values)
  \/ Str
  \/ FormatValidate(BoundsConfigs, Values)
  \/ Return
  \/ Discard

SpecFormatter == Init /\ [][NextFormatter]_vars

(***************************************************************************)
(* Encoders whose materialization fails: no descriptor, an unsupported     *)
(* digest, a pbkdf2 descriptor that does not parse; and one that works.    *)
(***************************************************************************)
FailingAlgs ==
  {None, PyStr(<<>>), PyStr(S(<<"m", "d", "4">>)),
   PyStr(S(<<"p", "b", "k", "d", "f", "2", "(", "x", ")">>)), PyStr(md5)}

FailingConfigs ==
  {CRYPT(k, d, 0, s, 1024) :
     k \in {None, PyStr(S(<<"k">>))}, d \in FailingAlgs, s \in {PyBool(FALSE), PyBool(TRUE)}}

NextFailing ==
  \/ Validate(FailingConfigs, Values)
  \/ Str
  \/ Return
  \/ Discard

SpecFailing == Init /\ [][NextFailing]_vars

(***************************************************************************)
(* Two threads in str() on the one instance, with nothing to synchronize   *)
(* them.  __str__ is taken in the steps between which another thread may   *)
(* run: the test of self.crypted, the hashing, the assignment to           *)
(* self.crypted, and the read of self.crypted that is returned.            *)
(***************************************************************************)
Threads == {1, 2}

ThreadConfigs ==
  {CRYPT(None, d, 0, s, 1024) :
     d \in {PyStr(md5), PyStr(S(<<"m", "d", "4">>))}, s \in {PyBool(FALSE), PyBool(TRUE)}}

\* __str__ from the salt to "%s$%s$%s" % (digest_alg, salt, hashed): the
\* string to be cached, or what simple_hash raised
StrHash(o, uuid) ==
  LET Wrap(a, salt, hashed) ==
        IF hashed.ok THEN Ok(PyStr(Format(a.digest_alg.s, salt, hashed.val))) ELSE hashed
      Hash(a, salt) == Wrap(a, salt, simple_hash(o.password.s, a.key, salt, a.digest_alg))
  IN Hash(StrAlgKey(o.crypt), StrSalt(o.crypt, uuid))

\* the assignment guarded by a second test of the cache
StrStoreOnce(o, crypted) == IF Cached(o) THEN o ELSE [o EXCEPT !.crypted = crypted]

\* self.crypted = ...
StrStore(o, crypted) == [o EXCEPT !.crypted = crypted]

\* both threads call str(obj)
Fork ==
  /\ call = Idle
  /\ obj # None
  /\ obj.hashes < MaxAttempts
  /\ call' = [op |-> "threads", pc |-> [t \in Threads |-> "check"],
              passed |-> [t \in Threads |-> FALSE], local |-> [t \in Threads |-> None],
              ret |-> [t \in Threads |-> None], wrote |-> <<>>, before |-> obj.hashes]
  /\ UNCHANGED obj

\* if self.crypted: return self.crypted
TCheck(t) ==
  /\ call.op = "threads"
  /\ call.pc[t] = "check"
  /\ call' = IF Cached(obj)
             THEN [call EXCEPT !.pc[t] = "done", !.ret[t] = Ok(obj.crypted)]
             ELSE [call EXCEPT !.pc[t] = "hash", !.passed[t] = call.wrote = <<>>]
  /\ UNCHANGED obj

\* the salt and hashed = simple_hash(...)
THash(t) ==
  /\ call.op = "threads"
  /\ call.pc[t] = "hash"
  /\ \E u \in AutoSalts :
       \E r \in {StrHash(obj, u)} :
         /\ obj' = [obj EXCEPT !.hashes = @ + 1,
                               !.salts = @ + (IF obj.crypt.salt = PyBool(TRUE) THEN 1 ELSE 0)]
         /\ call' = IF r.ok THEN [call EXCEPT !.pc[t] = "write", !.local[t] = r.val]
                    ELSE [call EXCEPT !.pc[t] = "done", !.ret[t] = r]

\* self.crypted = "%s$%s$%s" % (digest_alg, salt, hashed)
TWrite(t) ==
  /\ call.op = "threads"
  /\ call.pc[t] = "write"
  /\ obj' = StrStore(obj, call.local[t])
  /\ call' = [call EXCEPT !.pc[t] = "return", !.wrote = Append(@, t)]

\* return self.crypted
TReturn(t) ==
  /\ call.op = "threads"
  /\ call.pc[t] = "return"
  /\ call' = [call EXCEPT !.pc[t] = "done", !.ret[t] = Ok(obj.crypted)]
  /\ UNCHANGED obj

\* both calls have returned or raised
Join ==
  /\ call.op = "threads"
  /\ \A t \in Threads : call.pc[t] = "done"
  /\ call' = Idle
  /\ UNCHANGED obj

NextThreads ==
  \/ Validate(ThreadConfigs, Values)
  \/ call.op # "threads" /\ Return
  \/ Fork
  \/ \E t \in Threads : TCheck(t)
  \/ \E t \in Threads : THash(t)
  \/ \E t \in Threads : TWrite(t)
  \/ \E t \in Threads : TReturn(t)
  \/ Join
  \/ Discard

SpecThreads == Init /\ [][NextThreads]_vars

(***************************************************************************)
(* Properties of validate, __str__ and the comparisons as operations on    *)
(* the instance                                                            *)
(***************************************************************************)
\* C26 (as stated): CRYPT.validate computes no hash, whether it accepts or
\* rejects, for a plain string, the placeholder or an instance already
\* wrapped, which it returns as the same instance
ValidateNeverHashes ==
  call.op = "validate" =>
    /\ call.hashed = 0
    /\ (call.value = Self /\ call.ret.ok /\ call.ret.val # None) => call.ret.val = Self

IsThreads == call.op = "threads"

\* both threads are through, and both found the cache empty before either
\* had written it
BothPassed ==
  /\ IsThreads
  /\ \A t \in Threads : call.pc[t] = "done" /\ call.passed[t]

\* C27: materialization is not atomic: when both threads pass the test of the
\* cache before either writes it, the hash is computed once by each of them;
\* when the hashing succeeds both write the cache, which keeps only the string
\* written last, and each caller gets the string that was in the cache when
\* it returned, its own or the other's
NotAtomic ==
  BothPassed =>
    /\ obj.hashes = call.before + 2
    /\ (\A t \in Threads : call.ret[t].ok) =>
         /\ Len(call.wrote) = 2
         /\ obj.crypted = call.local[call.wrote[2]]
         /\ \A t \in Threads : \E u \in Threads : call.ret[t] = Ok(call.local[u])
         /\ call.ret[call.wrote[2]] = Ok(obj.crypted)

\* C27, witness: with salt=True both threads passed the test, computed the
\* hash and got different strings, and the cache holds the one written last
NotAtomicSeen ==
  /\ BothPassed
  /\ obj.crypt.salt = PyBool(TRUE)
  /\ obj.hashes = 2
  /\ \A t \in Threads : call.ret[t].ok
  /\ call.ret[1] # call.ret[2]
  /\ obj.crypted = call.ret[call.wrote[2]].val
  /\ obj.crypted # call.ret[call.wrote[1]].val

\* C28: a comparison has no effect on the instance: __eq__ and __ne__ leave
\* password, crypt and the cache slot as they are for every argument, and they
\* do not read the cache: the outcome is the one an instance of the same
\* encoder and plaintext that was never materialized gives
ComparisonPure ==
  /\ [](call.op \in {"eq", "ne"} =>
          call.ret = IF call.op = "eq"
                     THEN LazyCrypt_eq(LazyCrypt(obj.crypt, obj.password), call.arg).ret
                     ELSE LazyCrypt_ne(LazyCrypt(obj.crypt, obj.password), call.arg).ret)
  /\ [][call'.op \in {"eq", "ne"} => obj' = obj]_vars

\* C28, witness: a materialized instance with an auto-generated salt compared
\* equal to a string other than the one in its cache
ComparisonPureSeen ==
  /\ call.op = "eq"
  /\ IsStr(obj.crypted)
  /\ IsStr(call.arg) /\ call.arg # obj.crypted
  /\ call.ret = Ok(PyBool(TRUE))

\* C29: a failed materialization leaves the instance as it was: when
\* simple_hash raises during __str__ (no descriptor, unsupported digest,
\* pbkdf2 descriptor that does not parse) the cache slot is still None,
\* password and crypt are unchanged, and a later str() calls simple_hash again
FailedStrLeavesNone ==
  [][(/\ call'.op \in {"str", "validate"}
      /\ ~call'.ret.ok
      /\ call'.ret.exc \in {"RuntimeError", "ValueError"})
     => /\ obj.crypted = None /\ obj'.crypted = None
        /\ obj'.crypt = obj.crypt /\ obj'.password = obj.password
        /\ call'.hashed = 1 /\ obj'.hashes = obj.hashes + 1]_vars

\* C29, witness: str() raised a second time on the instance, for the missing
\* descriptor, having called simple_hash again, and the cache is empty
FailedStrLeavesNoneSeen ==
  /\ call.op = "str" /\ call.ret = Raise("RuntimeError") /\ call.hashed = 1
  /\ obj.hashes = 2
  /\ obj.crypted = None

\* C30: formatter gives the placeholder '******' for every value, and validate
\* of what formatter gave is None for every encoder: nothing is constructed
\* and nothing hashed
FormatterRoundTrip ==
  call.op = "formatter" =>
    /\ call.formatted = PyStr(Rep("*", 6))
    /\ call.ret = Ok(None)
    /\ ~call.created /\ call.hashed = 0

\* C30, witness: formatter of a materialized instance gave the placeholder and
\* validate of it gave None
FormatterRoundTripSeen ==
  /\ call.op = "formatter"
  /\ call.value = Self /\ IsStr(obj.crypted)
  /\ call.formatted = PyStr(Rep("*", 6))
  /\ call.ret = Ok(None)

====
